---- MODULE Spec2Model ----
(***************************************************************************)
(* Model of the n8n node ImageAspectRatioCropper                           *)
(* (src/nodes/ImageAspectRatioCropper/ImageAspectRatioCropper.node.ts).    *)
(*                                                                         *)
(* Two specifications share the variables:                                 *)
(*   SpecCalc  the pure function calculateCoverCrop applied to every       *)
(*             bounded valid input, then applied again to its own output;  *)
(*   Spec      the batch loop of execute(), one action per synchronous     *)
(*             segment between two awaits.                                 *)
(*                                                                         *)
(* Strings are sequences of one-character strings.  Numbers are integers:  *)
(* every number the model handles is far below 2^53, where                 *)
(* Math.floor(a / b) on doubles equals integer floor division.             *)
(***************************************************************************)
EXTENDS Integers, Sequences, FiniteSets

(* ------------------------------ bounds --------------------------------- *)

\* longest ratio string given to the calculator in SpecCalc
MaxRatioLen == 4
\* largest image dimension in SpecCalc
MaxDim == 12
\* longest aspectRatio parameter string in Spec
MaxParamLen == 3
\* largest dimension sharp's metadata reports in Spec
MaxMeta == 3
\* largest batch in Spec
MaxItems == 2

(* --------------------------- JavaScript values ------------------------- *)

\* NaN, as an integer no parse of the alphabet below produces; the
\* comparisons of the code (> 0, ===) are false on it as they are in JS.
NaN == -1

\* the null of `scale: number | null`
null == -2

\* characters of the parameter strings: three digits, the separator, a letter
Alphabet == {"0", "1", "2", ":", "a"}

Strings(n) == UNION {[1..k -> Alphabet] : k \in 0..n}

\* \d of the regular expression
IsDigit(c) == c \in {"0", "1", "2", "3", "4", "5", "6", "7", "8", "9"}

DigitValue(c) ==
  CASE c = "0" -> 0 [] c = "1" -> 1 [] c = "2" -> 2 [] c = "3" -> 3
    [] c = "4" -> 4 [] c = "5" -> 5 [] c = "6" -> 6 [] c = "7" -> 7
    [] c = "8" -> 8 [] c = "9" -> 9

AllDigits(str) == \A i \in 1..Len(str) : IsDigit(str[i])

\* value of a string of decimal digits, most significant first
RECURSIVE Decimal(_)
Decimal(str) ==
  IF str = <<>> THEN 0
  ELSE Decimal(SubSeq(str, 1, Len(str) - 1)) * 10 + DigitValue(str[Len(str)])

\* the longest prefix of digits
RECURSIVE DigitPrefix(_)
DigitPrefix(str) ==
  IF str = <<>> \/ ~IsDigit(Head(str)) THEN <<>>
  ELSE <<Head(str)>> \o DigitPrefix(Tail(str))

\* parseInt(str, 10): the leading digits, NaN when there are none
parseInt(str) ==
  IF DigitPrefix(str) = <<>> THEN NaN ELSE Decimal(DigitPrefix(str))

\* Number(str): 0 for the empty string, the value of an all-digit string,
\* NaN for anything else
Number(str) ==
  IF str = <<>> THEN 0
  ELSE IF AllDigits(str) THEN Decimal(str)
  ELSE NaN

\* str.split(':')
RECURSIVE split(_)
split(str) ==
  IF \A i \in 1..Len(str) : str[i] # ":" THEN <<str>>
  ELSE LET i == CHOOSE j \in 1..Len(str) :
                  str[j] = ":" /\ \A k \in 1..(j - 1) : str[k] # ":"
       IN <<SubSeq(str, 1, i - 1)>> \o split(SubSeq(str, i + 1, Len(str)))

(* --------------------------- isValidAspectRatio ------------------------ *)

\* ratio.match(/^(\d+):(\d+)$/): <<>> for null, else the two groups
match(ratio) ==
  LET at == {i \in 2..(Len(ratio) - 1) :
               /\ ratio[i] = ":"
               /\ AllDigits(SubSeq(ratio, 1, i - 1))
               /\ AllDigits(SubSeq(ratio, i + 1, Len(ratio)))}
  IN IF at = {} THEN <<>>
     ELSE LET i == CHOOSE j \in at : TRUE
          IN <<SubSeq(ratio, 1, i - 1), SubSeq(ratio, i + 1, Len(ratio))>>

isValidAspectRatio_ZeroOk(ratio) ==
  IF ratio = <<>> THEN FALSE
  ELSE IF match(ratio) = <<>> THEN FALSE
  ELSE LET w == match(ratio)[1]
           h == match(ratio)[2]
       IN parseInt(w) >= 0 /\ parseInt(h) >= 0

isValidAspectRatio(ratio) ==
  IF ratio = <<>> THEN FALSE
  ELSE IF match(ratio) = <<>> THEN FALSE
  ELSE LET w == match(ratio)[1]
           h == match(ratio)[2]
       IN parseInt(w) > 0 /\ parseInt(h) > 0

(* --------------------------- calculateCoverCrop ------------------------ *)

\* const [ratioW, ratioH] = aspectRatio.split(':').map(Number)
ratioOf(aspectRatio) ==
  LET parts == split(aspectRatio)
  IN [ratioW |-> IF Len(parts) >= 1 THEN Number(parts[1]) ELSE NaN,
      ratioH |-> IF Len(parts) >= 2 THEN Number(parts[2]) ELSE NaN]

isExactMatch_Swapped(width, height, ratioW, ratioH) ==
  width * ratioW = height * ratioH

isExactMatch(width, height, ratioW, ratioH) ==
  width * ratioH = height * ratioW

isWider_Inverted(width, height, ratioW, ratioH) ==
  width * ratioH < height * ratioW

isWider(width, height, ratioW, ratioH) ==
  width * ratioH > height * ratioW

NoCrop_ScaleOne(width, height) ==
  [needsCrop |-> FALSE, cropWidth |-> width, cropHeight |-> height,
   positionX |-> 0, positionY |-> 0, scale |-> 1]

\* the plan returned on an exact match
NoCrop(width, height) ==
  [needsCrop |-> FALSE, cropWidth |-> width, cropHeight |-> height,
   positionX |-> 0, positionY |-> 0, scale |-> null]

WiderScale_OneLess(height, ratioH) == (height \div ratioH) - 1

\* scale = Math.floor(height / ratioH)
WiderScale(height, ratioH) == height \div ratioH

TallerScale_OneLess(width, ratioW) == (width \div ratioW) - 1

\* scale = Math.floor(width / ratioW)
TallerScale(width, ratioW) == width \div ratioW

CropSize_Swapped(scale, ratioW, ratioH) ==
  [cropWidth |-> scale * ratioH, cropHeight |-> scale * ratioW]

\* cropWidth = scale * ratioW; cropHeight = scale * ratioH
CropSize(scale, ratioW, ratioH) ==
  [cropWidth |-> scale * ratioW, cropHeight |-> scale * ratioH]

CenterPosition_RoundUp(width, height, cropWidth, cropHeight) ==
  [positionX |-> (width - cropWidth + 1) \div 2,
   positionY |-> (height - cropHeight + 1) \div 2]

CenterPosition_FromMiddle(width, height, cropWidth, cropHeight) ==
  [positionX |-> width \div 2,
   positionY |-> height \div 2]

\* Math.floor((width - cropWidth) / 2), Math.floor((height - cropHeight) / 2)
CenterPosition(width, height, cropWidth, cropHeight) ==
  [positionX |-> (width - cropWidth) \div 2,
   positionY |-> (height - cropHeight) \div 2]

calculateCoverCrop(width, height, aspectRatio) ==
  LET ratioW == ratioOf(aspectRatio).ratioW
      ratioH == ratioOf(aspectRatio).ratioH
  IN IF isExactMatch(width, height, ratioW, ratioH)
     THEN NoCrop(width, height)
     ELSE LET scale == IF isWider(width, height, ratioW, ratioH)
                       THEN WiderScale(height, ratioH)
                       ELSE TallerScale(width, ratioW)
              size == CropSize(scale, ratioW, ratioH)
              pos  == CenterPosition(width, height,
                                     size.cropWidth, size.cropHeight)
          IN [needsCrop  |-> TRUE,
              cropWidth  |-> size.cropWidth,
              cropHeight |-> size.cropHeight,
              positionX  |-> pos.positionX,
              positionY  |-> pos.positionY,
              scale      |-> scale]

(* ------------------------------- state --------------------------------- *)

VARIABLES
  pc,             \* position of the control flow
  numItems,       \* items.length
  continueOnFail, \* what this.continueOnFail() answers
  itemIndex,      \* the loop variable
  returnData,     \* the records pushed so far
  result,         \* what execute() has returned or thrown, if anything
  aspectRatio,    \* the current item's ratio string
  width,          \* the current item's width
  height,         \* the current item's height
  cropParams,     \* the plan calculateCoverCrop returned for the item
  extractArgs,    \* the region given to sharp's extract for the item
  error,          \* the error caught for the item
  secondPlan      \* SpecCalc: the plan of the plan's own dimensions

vars == <<pc, numItems, continueOnFail, itemIndex, returnData, result,
          aspectRatio, width, height, cropParams, extractArgs, error,
          secondPlan>>

\* no plan computed, no region requested, nothing returned, nothing caught
NoPlan == [none |-> TRUE]
NoExtract == [none |-> TRUE]
NoResult == [none |-> TRUE]
NoError == "none"

HasPlan(p) == "needsCrop" \in DOMAIN p

(* ----------------------- SpecCalc: the calculator ---------------------- *)

batchIdle ==
  /\ numItems = 0
  /\ continueOnFail = FALSE
  /\ itemIndex = 0
  /\ returnData = <<>>
  /\ result = NoResult
  /\ extractArgs = NoExtract
  /\ error = NoError

\* the calculator's precondition: a validated ratio, positive dimensions
InitCalc ==
  /\ pc = "input"
  /\ aspectRatio \in {s \in Strings(MaxRatioLen) : isValidAspectRatio(s)}
  /\ width \in 1..MaxDim
  /\ height \in 1..MaxDim
  /\ cropParams = NoPlan
  /\ secondPlan = NoPlan
  /\ batchIdle

Plan ==
  /\ pc = "input"
  /\ cropParams' = calculateCoverCrop(width, height, aspectRatio)
  /\ pc' = "planned"
  /\ UNCHANGED <<numItems, continueOnFail, itemIndex, returnData, result,
                 aspectRatio, width, height, extractArgs, error, secondPlan>>

\* the calculator on an image that has the size of the plan just computed
PlanAgain ==
  /\ pc = "planned"
  /\ secondPlan' = calculateCoverCrop(cropParams.cropWidth,
                                      cropParams.cropHeight, aspectRatio)
  /\ pc' = "replanned"
  /\ UNCHANGED <<numItems, continueOnFail, itemIndex, returnData, result,
                 aspectRatio, width, height, cropParams, extractArgs, error>>

NextCalc == Plan \/ PlanAgain

SpecCalc == InitCalc /\ [][NextCalc]_vars

(* --------------------------- Spec: execute() --------------------------- *)

SUPPORTED_MIME_TYPES ==
  {"image/jpeg", "image/jpg", "image/png", "image/webp", "image/gif",
   "image/tiff", "image/svg+xml"}

\* binaryData.mimeType || '' of the items: supported types, one of them in
\* upper case, an unsupported type and a missing one
MimeTypes == {"image/png", "image/jpeg", "IMAGE/PNG", "text/plain", ""}

toLowerCase(mimeType) ==
  IF mimeType = "IMAGE/PNG" THEN "image/png" ELSE mimeType

\* the block-scoped constants of one loop iteration, before they are set
itemScopeCleared ==
  /\ aspectRatio' = <<>>
  /\ width' = 0
  /\ height' = 0
  /\ cropParams' = NoPlan
  /\ extractArgs' = NoExtract
  /\ error' = NoError

\* the record pushed for a processed item
newItem(plan, index) ==
  [json |-> [cropped |-> plan.needsCrop], pairedItem |-> index]

\* the record pushed for a failed item when continue-on-fail is on
errorItem(err, index) ==
  [json |-> [error |-> err], pairedItem |-> index]

Init ==
  /\ pc = "loop"
  /\ numItems \in 0..MaxItems
  /\ continueOnFail \in BOOLEAN
  /\ itemIndex = 0
  /\ returnData = <<>>
  /\ result = NoResult
  /\ aspectRatio = <<>>
  /\ width = 0
  /\ height = 0
  /\ cropParams = NoPlan
  /\ extractArgs = NoExtract
  /\ error = NoError
  /\ secondPlan = NoPlan

\* loop test, parameters, the three validations, up to the first await
StartItem ==
  /\ pc = "loop"
  /\ itemIndex < numItems
  /\ \E ratio \in Strings(MaxParamLen), hasBinary \in BOOLEAN,
        mimeType \in MimeTypes :
        /\ aspectRatio' = ratio
        /\ IF ~isValidAspectRatio(ratio)
           THEN error' = "ratio" /\ pc' = "catch"
           ELSE IF ~hasBinary
           THEN error' = "binary" /\ pc' = "catch"
           ELSE IF toLowerCase(mimeType) \notin SUPPORTED_MIME_TYPES
           THEN error' = "mime" /\ pc' = "catch"
           ELSE error' = error /\ pc' = "metadata"
  /\ UNCHANGED <<numItems, continueOnFail, itemIndex, returnData, result,
                 width, height, cropParams, extractArgs, secondPlan>>

\* getBinaryDataBuffer and sharp's metadata resolve or reject; then the
\* dimension test, the calculator and the extract request, up to the encoder
ReadMetadata ==
  /\ pc = "metadata"
  /\ \E resolved \in BOOLEAN, w \in 0..MaxMeta, h \in 0..MaxMeta :
        IF ~resolved
        THEN /\ error' = "codec" /\ pc' = "catch"
             /\ UNCHANGED <<width, height, cropParams, extractArgs>>
        ELSE /\ width' = w
             /\ height' = h
             /\ IF w = 0 \/ h = 0
                THEN /\ error' = "dimensions" /\ pc' = "catch"
                     /\ UNCHANGED <<cropParams, extractArgs>>
                ELSE LET plan == calculateCoverCrop(w, h, aspectRatio)
                     IN /\ cropParams' = plan
                        /\ extractArgs' =
                             IF plan.needsCrop
                             THEN [left |-> plan.positionX,
                                   top |-> plan.positionY,
                                   width |-> plan.cropWidth,
                                   height |-> plan.cropHeight]
                             ELSE NoExtract
                        /\ error' = error
                        /\ pc' = "encode"
  /\ UNCHANGED <<numItems, continueOnFail, itemIndex, returnData, result,
                 aspectRatio, secondPlan>>

\* toBuffer and prepareBinaryData resolve or reject; on success the record
\* is pushed and the loop goes on
Encode ==
  /\ pc = "encode"
  /\ \E resolved \in BOOLEAN :
        IF resolved
        THEN /\ returnData' = Append(returnData, newItem(cropParams, itemIndex))
             /\ itemIndex' = itemIndex + 1
             /\ pc' = "loop"
             /\ itemScopeCleared
        ELSE /\ error' = "codec" /\ pc' = "catch"
             /\ UNCHANGED <<itemIndex, returnData, aspectRatio, width, height,
                            cropParams, extractArgs>>
  /\ UNCHANGED <<numItems, continueOnFail, result, secondPlan>>

CatchError_Rethrow ==
  /\ pc = "catch"
  /\ pc' = "thrown"
  /\ result' = [thrown |-> error]
  /\ UNCHANGED <<itemIndex, returnData, aspectRatio, width, height,
                 cropParams, extractArgs, error>>
  /\ UNCHANGED <<numItems, continueOnFail, secondPlan>>

\* the catch block
CatchError ==
  /\ pc = "catch"
  /\ IF continueOnFail
     THEN /\ returnData' = Append(returnData, errorItem(error, itemIndex))
          /\ itemIndex' = itemIndex + 1
          /\ pc' = "loop"
          /\ itemScopeCleared
          /\ UNCHANGED result
     ELSE /\ pc' = "thrown"
          /\ result' = [thrown |-> error]
          /\ UNCHANGED <<itemIndex, returnData, aspectRatio, width, height,
                         cropParams, extractArgs, error>>
  /\ UNCHANGED <<numItems, continueOnFail, secondPlan>>

\* return [returnData]
Return ==
  /\ pc = "loop"
  /\ itemIndex >= numItems
  /\ result' = [returned |-> returnData]
  /\ pc' = "returned"
  /\ UNCHANGED <<numItems, continueOnFail, itemIndex, returnData,
                 aspectRatio, width, height, cropParams, extractArgs, error,
                 secondPlan>>

Next == StartItem \/ ReadMetadata \/ Encode \/ CatchError \/ Return

Spec == Init /\ [][Next]_vars

(* ------------------- properties of calculateCoverCrop ------------------ *)

\* the target ratio as a pair of integers, read off the ratio string
ColonAt(str) == CHOOSE i \in 1..Len(str) : str[i] = ":"
TargetW == Decimal(SubSeq(aspectRatio, 1, ColonAt(aspectRatio) - 1))
TargetH == Decimal(SubSeq(aspectRatio, ColonAt(aspectRatio) + 1,
                          Len(aspectRatio)))

Planned == pc \in {"planned", "replanned"}
ExactInput == width * TargetH = height * TargetW
WiderInput == width * TargetH > height * TargetW

RECURSIVE GCD(_, _)
GCD(a, b) == IF b = 0 THEN a ELSE GCD(b, a % b)

\* C1: on an exact match (width*ratioH = height*ratioW) the plan is
\* needsCrop=false, the crop size is the image size, the position is (0,0)
\* and the scale is null.
C1_ExactMatchNoCrop ==
  (Planned /\ ExactInput) =>
     /\ cropParams.needsCrop = FALSE
     /\ cropParams.cropWidth = width
     /\ cropParams.cropHeight = height
     /\ cropParams.positionX = 0
     /\ cropParams.positionY = 0
     /\ cropParams.scale = null

C1_Witness ==
  /\ Planned /\ ExactInput
  /\ width # height
  /\ cropParams.needsCrop = FALSE

\* C2: without an exact match the plan has an integer scale, the crop size
\* is (scale*ratioW, scale*ratioH), and it exceeds the image on neither axis.
C2_ScaledWithinImage ==
  (Planned /\ ~ExactInput) =>
     /\ cropParams.scale # null
     /\ cropParams.scale \in Int
     /\ cropParams.cropWidth = cropParams.scale * TargetW
     /\ cropParams.cropHeight = cropParams.scale * TargetH
     /\ cropParams.cropWidth <= width
     /\ cropParams.cropHeight <= height

C2_Witness ==
  /\ Planned /\ ~ExactInput /\ WiderInput
  /\ cropParams.scale >= 2
  /\ cropParams.cropHeight < height
  /\ cropParams.cropWidth < width

\* C3: the crop rectangle lies inside the image: the position is not
\* negative, and position plus crop size does not pass the image's edge.
C3_RectangleInsideImage ==
  Planned =>
     /\ cropParams.positionX >= 0
     /\ cropParams.positionY >= 0
     /\ cropParams.positionX + cropParams.cropWidth <= width
     /\ cropParams.positionY + cropParams.cropHeight <= height

C3_Witness ==
  /\ Planned
  /\ cropParams.needsCrop
  /\ cropParams.positionX > 0
  /\ cropParams.positionX + cropParams.cropWidth < width

\* C4: without an exact match, the scale is the largest that fits the
\* limiting axis: the height for a wider image, the width otherwise.
C4_ScaleIsMaximal ==
  (Planned /\ ~ExactInput) =>
     IF WiderInput
     THEN /\ cropParams.scale * TargetH <= height
          /\ height < (cropParams.scale + 1) * TargetH
     ELSE /\ cropParams.scale * TargetW <= width
          /\ width < (cropParams.scale + 1) * TargetW

C4_Witness ==
  /\ Planned /\ ~ExactInput /\ WiderInput
  /\ cropParams.scale >= 1
  /\ cropParams.scale * TargetH < height

\* C5 as stated: no integer rectangle a x b of the target ratio
\* (a*ratioH = b*ratioW) that fits in the image is larger than the crop,
\* whether or not the ratio is in lowest terms.
C5_LargestRectangleOfRatio ==
  Planned =>
     \A a \in 1..width : \A b \in 1..height :
        (a * TargetH = b * TargetW) =>
           a * b <= cropParams.cropWidth * cropParams.cropHeight

\* C5 amended: no rectangle k*ratioW x k*ratioH, k an integer, that fits in
\* the image is larger than the crop; and when ratioW and ratioH are
\* coprime, no integer rectangle of the target ratio that fits is larger.
C5_LargestMultipleOfRatio ==
  Planned =>
     /\ \A k \in 0..(width + height) :
           (k * TargetW <= width /\ k * TargetH <= height) =>
              /\ k * TargetW <= cropParams.cropWidth
              /\ k * TargetH <= cropParams.cropHeight
     /\ (GCD(TargetW, TargetH) = 1) =>
           \A a \in 1..width : \A b \in 1..height :
              (a * TargetH = b * TargetW) =>
                 a * b <= cropParams.cropWidth * cropParams.cropHeight

C5_Witness ==
  /\ Planned /\ ~ExactInput /\ ~WiderInput
  /\ GCD(TargetW, TargetH) > 1
  /\ cropParams.scale >= 1
  /\ cropParams.cropWidth < width

\* C6 as stated: a plan with needsCrop=true has a positive scale, the crop
\* size (scale*ratioW, scale*ratioH), and exceeds the image on neither axis.
C6_PositiveScale ==
  (Planned /\ cropParams.needsCrop) =>
     /\ cropParams.scale # null
     /\ cropParams.scale > 0
     /\ cropParams.cropWidth = cropParams.scale * TargetW
     /\ cropParams.cropHeight = cropParams.scale * TargetH
     /\ cropParams.cropWidth > 0
     /\ cropParams.cropHeight > 0
     /\ cropParams.cropWidth <= width
     /\ cropParams.cropHeight <= height

\* C6 amended: a plan with needsCrop=true has a scale that is an integer
\* >= 0, zero exactly when the limiting dimension is smaller than its ratio
\* component (height < ratioH for a wider image, width < ratioW otherwise);
\* the crop size is (scale*ratioW, scale*ratioH) and exceeds the image on
\* neither axis.
C6_NonNegativeScale ==
  (Planned /\ cropParams.needsCrop) =>
     /\ cropParams.scale # null
     /\ cropParams.scale >= 0
     /\ (cropParams.scale = 0) <=>
           (IF WiderInput THEN height < TargetH ELSE width < TargetW)
     /\ cropParams.cropWidth = cropParams.scale * TargetW
     /\ cropParams.cropHeight = cropParams.scale * TargetH
     /\ cropParams.cropWidth <= width
     /\ cropParams.cropHeight <= height

C6_Witness ==
  /\ Planned
  /\ cropParams.needsCrop
  /\ cropParams.scale >= 2
  /\ TargetW # TargetH
  /\ cropParams.cropHeight < height

\* C7: the calculator applied with the same ratio to the crop size of a
\* previous plan answers needsCrop=false.
C7_Idempotent ==
  (pc = "replanned") => (secondPlan.needsCrop = FALSE)

C7_Witness ==
  /\ pc = "replanned"
  /\ cropParams.needsCrop
  /\ cropParams.scale >= 1
  /\ TargetW # TargetH
  /\ secondPlan.needsCrop = FALSE

\* the margins the plan leaves around the crop rectangle
LeftoverX == width - cropParams.cropWidth
LeftoverY == height - cropParams.cropHeight
TrailingX == width - cropParams.positionX - cropParams.cropWidth
TrailingY == height - cropParams.positionY - cropParams.cropHeight

\* C11: when a crop is needed, positionX is the floor of half the leftover
\* width and positionY the floor of half the leftover height, so on each
\* axis the trailing margin equals the leading margin (the position) or
\* exceeds it by exactly 1, and by 1 exactly when the leftover is odd.
C11_Centered ==
  (Planned /\ cropParams.needsCrop) =>
     /\ 2 * cropParams.positionX <= LeftoverX
     /\ LeftoverX < 2 * cropParams.positionX + 2
     /\ 2 * cropParams.positionY <= LeftoverY
     /\ LeftoverY < 2 * cropParams.positionY + 2
     /\ TrailingX - cropParams.positionX \in {0, 1}
     /\ TrailingY - cropParams.positionY \in {0, 1}
     /\ (TrailingX - cropParams.positionX = 1) <=> (LeftoverX % 2 = 1)
     /\ (TrailingY - cropParams.positionY = 1) <=> (LeftoverY % 2 = 1)

C11_Witness ==
  /\ Planned
  /\ cropParams.needsCrop
  /\ cropParams.scale >= 1
  /\ cropParams.positionX >= 1
  /\ LeftoverX % 2 = 1
  /\ TrailingX = cropParams.positionX + 1

(* ------------------------ properties of execute() ---------------------- *)

HasExtract(e) == "width" \in DOMAIN e

\* ^\d+:\d+$ with both integers strictly positive
RatioAccepted(str) ==
  \E i \in 2..(Len(str) - 1) :
     /\ str[i] = ":"
     /\ \A k \in (1..Len(str)) \ {i} : IsDigit(str[k])
     /\ Decimal(SubSeq(str, 1, i - 1)) > 0
     /\ Decimal(SubSeq(str, i + 1, Len(str))) > 0

Failed == pc \in {"catch", "thrown"}

\* C8: the calculator has run for an item only if the item's ratio string
\* matches ^\d+:\d+$ with both integers positive and its width and height
\* are positive; an item with any other ratio string has failed with the
\* ratio error and has no plan, an item whose dimensions could not be
\* determined has failed with no plan, and an item that reaches the encoder
\* has a plan.
C8_CalculatorBehindValidation ==
  /\ HasPlan(cropParams) =>
        (RatioAccepted(aspectRatio) /\ width > 0 /\ height > 0)
  /\ (pc \in {"metadata", "encode", "catch", "thrown"}
        /\ ~RatioAccepted(aspectRatio)) =>
        (Failed /\ error = "ratio" /\ ~HasPlan(cropParams))
  /\ (error = "dimensions") =>
        (Failed /\ (width = 0 \/ height = 0) /\ ~HasPlan(cropParams))
  /\ (pc = "encode") => HasPlan(cropParams)

C8_Witness ==
  /\ pc = "encode"
  /\ HasPlan(cropParams)
  /\ RatioAccepted(aspectRatio)
  /\ Head(aspectRatio) # "0"

\* C9: a degenerate plan (needsCrop with a zero crop width or height) makes
\* the item fail, and extract is never requested with a zero width or
\* height.
C9_DegeneratePlanNotApplied ==
  /\ HasExtract(extractArgs) =>
        (extractArgs.width > 0 /\ extractArgs.height > 0)
  /\ (HasPlan(cropParams) /\ cropParams.needsCrop
        /\ (cropParams.cropWidth = 0 \/ cropParams.cropHeight = 0)) => Failed

IsErrorItem(r) == "error" \in DOMAIN r.json

C10_State ==
  /\ Len(returnData) = itemIndex
  /\ \A k \in 1..Len(returnData) : returnData[k].pairedItem = k - 1
  /\ (pc = "returned") =>
        (Len(returnData) = numItems /\ result = [returned |-> returnData])
  /\ continueOnFail => (pc # "thrown")
  /\ ~continueOnFail =>
        \A k \in 1..Len(returnData) : ~IsErrorItem(returnData[k])
  /\ (pc = "thrown") =>
        /\ error # NoError
        /\ result = [thrown |-> error]
        /\ itemIndex < numItems
  /\ (pc # "returned") => ("returned" \notin DOMAIN result)

C10_Step ==
  /\ (pc = "catch" /\ continueOnFail) =>
        /\ returnData' = Append(returnData, errorItem(error, itemIndex))
        /\ itemIndex' = itemIndex + 1
        /\ pc' = "loop"
  /\ (pc = "catch" /\ ~continueOnFail) => (pc' = "thrown")
  /\ pc # "thrown"
  /\ (pc' = "returned") => (itemIndex = numItems)

\* C10: with continue-on-fail a failure on item i appends an error record
\* paired to i and the loop goes on to item i+1, so the list returned has
\* one record per item, the k-th paired to item k; without it the first
\* failure throws, no step follows the throw, no error record is ever in the
\* list and no list is returned.
C10_FailureIsolation == []C10_State /\ [][C10_Step]_vars

C10_Witness ==
  /\ pc = "returned"
  /\ continueOnFail
  /\ Len(returnData) = numItems
  /\ \E k \in 1..(Len(returnData) - 1) :
        IsErrorItem(returnData[k]) /\ ~IsErrorItem(returnData[k + 1])

====
